---- MODULE Spec2Model ----
(***************************************************************************)
(* A state-machine model of the car game's simulation core: the Car        *)
(* (src/src/game/Car.ts, the class that starts at line 629), the shapes    *)
(* (src/src/game/shapes/Shape.ts), the map entities and their manager      *)
(* (src/src/game/entities/*.ts), the Road (src/unnamed/part_003) and the   *)
(* Game loop (src/src/game/shapes/Shape.ts, the class at line 600).        *)
(*                                                                         *)
(* Numbers.  The program computes in IEEE doubles; the model computes in   *)
(* fixed point with truncating division:                                   *)
(*   velocities, multipliers, tan/sin/cos, grip     1/1000   (MILLI)       *)
(*   world coordinates and lengths                  1/100    (CENTI)       *)
(*   angles                                         1/1000 radian          *)
(*   time                                           milliseconds           *)
(* Math.sin/cos/atan2/pow are computed by the integer approximations Sin,  *)
(* Cos, Atan2 and PowAir below (exact at 0, monotone, error below 0.4%).   *)
(* A number that may be NaN is a record [nan, value].                      *)
(*                                                                         *)
(* MILLI and CENTI are the model's units, not values of the program.       *)
(*                                                                         *)
(* Clock.  performance.now() and the animation frame's timestamp are one   *)
(* clock, now; a frame reads it once.                                      *)
(*                                                                         *)
(* Math.random() is a deterministic generator: DrawTable lists the draws   *)
(* that successive generateRandomEntity calls see, and the entity manager  *)
(* carries its position in the table.                                      *)
(*                                                                         *)
(* Entities are built by MapEntityManager (the class at line 6 of          *)
(* MapEntityManager.ts) and carry the shapes of Shape.ts lines 21-276      *)
(* (RectShapeImpl, CircleShapeImpl), the classes that the Car's shape and  *)
(* PowerUpEntity.ts, BaseObstacleEntity.ts and CyclistEntity.ts use.       *)
(*                                                                         *)
(* Left out: the canvas drawing, the wheel traces and smoke, the camera,   *)
(* the cyclist's blood splatter (drawn only) and the CarWheel force        *)
(* fields, which update() writes and nothing reads.                        *)
(***************************************************************************)
EXTENDS Integers, Sequences, FiniteSets, TLC

MILLI == 10 * 100
CENTI == 10 * 10
\* Math.PI in 1/1000 rad.
PI == 3142
HALF_PI == PI \div 2
TWO_PI == 2 * PI

Abs(a) == IF a < 0 THEN -a ELSE a
Sign(a) == IF a > 0 THEN 1 ELSE IF a < 0 THEN -1 ELSE 0
Min(a, b) == IF a < b THEN a ELSE b
Max(a, b) == IF a > b THEN a ELSE b
\* Division that truncates toward zero, so that the model is left/right symmetric
\* as the floating-point code is.
Quot(a, b) == IF (a < 0) = (b < 0) THEN Abs(a) \div Abs(b) ELSE -(Abs(a) \div Abs(b))

\* sin on [0, pi] (Bhaskara's rational form), in MILLI, angle in 1/1000 rad.
SinHalfTurn(x) ==
  LET p == x * (PI - x)
      den == (49348022 - 4 * p) \div MILLI
  IN Min(MILLI, (16 * p) \div den)

\* Math.sin of an angle in 1/1000 rad, in MILLI.
Sin(a) ==
  LET r == a % TWO_PI
  IN IF r <= PI THEN SinHalfTurn(r) ELSE -SinHalfTurn(Min(PI, r - PI))

\* Math.cos, as sin(a + pi/2).
Cos(a) == Sin(a + HALF_PI)

\* Math.tan of a steering angle, in MILLI; the steering angle never reaches
\* pi/2, a zero cosine is the double's huge value.
Tan(a) == IF Cos(a) = 0 THEN 1000 * MILLI * Sign(Sin(a)) ELSE Quot(Sin(a) * MILLI, Cos(a))

\* atan of a ratio z (MILLI) with |z| <= 1, in 1/1000 rad.
AtanUnit(z) == Quot(z * (785 + Quot(273 * (MILLI - Abs(z)), MILLI)), MILLI)

\* Math.atan2(y, x) for x >= 0, in 1/1000 rad.
Atan2(y, x) ==
  IF x = 0 THEN Sign(y) * HALF_PI
  ELSE IF Abs(y) <= x THEN AtanUnit(Quot(y * MILLI, x))
  ELSE Sign(y) * (HALF_PI - AtanUnit(Quot(x * MILLI, Abs(y))))

\* Math.pow(0.99, deltaTime / 16) in 1/10000: exp(-x) with x = deltaTime * ln(1/0.99) / 16,
\* by its series.
PowAir(deltaTime) ==
  LET one == 10000
      x  == (deltaTime * 6281) \div 1000
      t2 == (x * x) \div (2 * one)
      t3 == (t2 * x) \div (3 * one)
      t4 == (t3 * x) \div (4 * one)
      t5 == (t4 * x) \div (5 * one)
      t6 == (t5 * x) \div (6 * one)
  IN Max(0, one - x + t2 - t3 + t4 - t5 + t6)

(***************************************************************************)
(* Program constants.                                                      *)
(***************************************************************************)
baseWidth == 50 * CENTI
baseHeight == 90 * CENTI
wheelbase == 60
steeringSpeed == PI \div 32
maxSteeringAngle == PI \div 4
\* Game.defaultCarStats (maxSpeed 10, acceleration .3, handling 0.8), in MILLI.
defaultCarStats == [maxSpeed |-> 10 * MILLI, acceleration |-> 300, handling |-> 800]
stats == defaultCarStats
maxSpeed == stats.maxSpeed

(***************************************************************************)
(* Shapes.  A rectangle caches its four corners.                           *)
(***************************************************************************)
\* RectShapeImpl.calculateCorners: the corners of a rectangle in world space.
calculateCorners(x, y, width, height, rotation) ==
  LET halfWidth == width \div 2
      halfHeight == height \div 2
      cos == Cos(rotation)
      sin == Sin(rotation)
      localCorners == << [x |-> -halfWidth, y |-> -halfHeight],
                         [x |-> halfWidth,  y |-> -halfHeight],
                         [x |-> halfWidth,  y |-> halfHeight],
                         [x |-> -halfWidth, y |-> halfHeight] >>
  IN [i \in 1..4 |->
        [x |-> x + Quot(localCorners[i].x * cos - localCorners[i].y * sin, MILLI),
         y |-> y + Quot(localCorners[i].x * sin + localCorners[i].y * cos, MILLI)]]

\* new RectShapeImpl(x, y, width, height, rotation)
RectShapeImpl(x, y, width, height, rotation) ==
  [type |-> "rect", x |-> x, y |-> y, width |-> width, height |-> height,
   rotation |-> rotation, corners |-> calculateCorners(x, y, width, height, rotation)]

\* new CircleShapeImpl(x, y, radius)
CircleShapeImpl(x, y, radius) ==
  [type |-> "circle", x |-> x, y |-> y, radius |-> radius]

\* RectShapeImpl.setPosition / ShapeImpl.setPosition
setPosition(shape, x, y) ==
  IF shape.type = "rect"
  THEN [shape EXCEPT !.x = x, !.y = y,
                     !.corners = calculateCorners(x, y, shape.width, shape.height, shape.rotation)]
  ELSE [shape EXCEPT !.x = x, !.y = y]

\* Math.sqrt of a non-negative integer, rounded down: the largest r in lo..hi
\* with r * r <= n.
RECURSIVE SqrtBetween(_, _, _)
SqrtBetween(n, lo, hi) ==
  IF lo >= hi THEN lo
  ELSE LET mid == (lo + hi + 1) \div 2
       IN IF mid * mid <= n THEN SqrtBetween(n, mid, hi) ELSE SqrtBetween(n, lo, mid - 1)

Sqrt(n) == SqrtBetween(n, 0, 46340)

\* The perpendicular unit axis of the edge from corner i to the next corner
\* (MILLI).  The edge length is taken in 1/10 unit; a zero-length edge divides
\* by zero and the axis is NaN.
edgeAxis(corners, i) ==
  LET p1 == corners[i]
      p2 == corners[(i % 4) + 1]
      edge == [x |-> p2.x - p1.x, y |-> p2.y - p1.y]
      length == Sqrt(Quot(edge.x, 10) * Quot(edge.x, 10) + Quot(edge.y, 10) * Quot(edge.y, 10))
  IN IF length = 0 THEN [nan |-> TRUE, x |-> 0, y |-> 0]
     ELSE [nan |-> FALSE, x |-> Quot(-edge.y * MILLI, 10 * length),
                          y |-> Quot(edge.x * MILLI, 10 * length)]

\* The isDuplicate test of getAxes: equal to an axis already taken, or to its
\* negation (every comparison with a NaN is false).
isDuplicate(axes, axis) ==
  \E k \in 1..Len(axes) :
    /\ ~axis.nan /\ ~axes[k].nan
    /\ \/ (axes[k].x = axis.x /\ axes[k].y = axis.y)
       \/ (axes[k].x = -axis.x /\ axes[k].y = -axis.y)

\* RectShapeImpl.getAxes: the loop over the four edges, from edge i on.
RECURSIVE getAxesFrom(_, _, _)
getAxesFrom(corners, i, axes) ==
  IF i > 4 THEN axes
  ELSE LET axis == edgeAxis(corners, i)
       IN getAxesFrom(corners, i + 1,
                      IF isDuplicate(axes, axis) THEN axes ELSE Append(axes, axis))

getAxes(rect) == getAxesFrom(rect.corners, 1, << >>)

\* RectShapeImpl.project: the interval of the corners' projections on an axis
\* (CENTI * MILLI).
project(rect, axis) ==
  LET proj(i) == rect.corners[i].x * axis.x + rect.corners[i].y * axis.y
  IN [min |-> Min(Min(proj(1), proj(2)), Min(proj(3), proj(4))),
      max |-> Max(Max(proj(1), proj(2)), Max(proj(3), proj(4)))]

\* RectShapeImpl.overlap
overlap(p1, p2) == ~(p1.max < p2.min \/ p2.max < p1.min)

\* RectShapeImpl.collidesWithRect: the separating axis test over the axes of
\* both rectangles.  On a NaN axis both projections are NaN, no comparison
\* holds and the axis separates nothing.
overlapOnEvery(this, rect, axes) ==
  \A k \in 1..Len(axes) :
    axes[k].nan \/ overlap(project(this, axes[k]), project(rect, axes[k]))

\* The separating axis test over the axes of this rectangle alone.
collidesWithRect_ownAxesOnly(this, rect) == overlapOnEvery(this, rect, getAxes(this))

collidesWithRect(this, rect) == overlapOnEvery(this, rect, getAxes(this) \o getAxes(rect))

\* RectShapeImpl.closestPointOnLine: the point of the segment p1-p2 closest to
\* point; t is kept in 1/10000.
closestPointOnLine(p1, p2, point) ==
  LET dx == p2.x - p1.x
      dy == p2.y - p1.y
      length2 == dx * dx + dy * dy
      num == (point.x - p1.x) * dx + (point.y - p1.y) * dy
      t == IF num <= 0 THEN 0
           ELSE IF num >= length2 THEN 10000
           ELSE IF length2 < 10000 THEN Quot(num * 10000, length2)
           ELSE Quot(num, length2 \div 10000)
  IN IF length2 = 0 THEN p1
     ELSE [x |-> p1.x + Quot(Min(t, 10000) * dx, 10000),
           y |-> p1.y + Quot(Min(t, 10000) * dy, 10000)]

\* A circle this far from a rectangle's centre (250 units on one coordinate) is
\* out of reach of every edge; its squared distances are not computed, they
\* would not fit the model's integers.
OutOfReach(rect, circle) ==
  Abs(circle.x - rect.x) > 250 * CENTI \/ Abs(circle.y - rect.y) > 250 * CENTI

\* (closest.x - circlePos.x) ** 2 + (closest.y - circlePos.y) ** 2
distance2(closest, circlePos) ==
  (closest.x - circlePos.x) * (closest.x - circlePos.x)
    + (closest.y - circlePos.y) * (closest.y - circlePos.y)

\* The squared distance from the circle's centre to the edge that starts at corner i.
edgeDistance2(rect, circle, i) ==
  distance2(closestPointOnLine(rect.corners[i], rect.corners[(i % 4) + 1],
                               [x |-> circle.x, y |-> circle.y]),
            circle)

\* RectShapeImpl.collidesWithCircle: the least squared distance over the four
\* EDGES against radius squared.  The rectangle's interior is not examined.
collidesWithCircle(rect, circle) ==
  IF OutOfReach(rect, circle) THEN FALSE
  ELSE LET closestDist == Min(Min(edgeDistance2(rect, circle, 1), edgeDistance2(rect, circle, 2)),
                              Min(edgeDistance2(rect, circle, 3), edgeDistance2(rect, circle, 4)))
       IN closestDist <= circle.radius * circle.radius

\* CircleShapeImpl.collidesWithCircle
circleCollidesWithCircle(this, circle) ==
  LET dx == this.x - circle.x
      dy == this.y - circle.y
  IN IF Abs(dx) > 250 * CENTI \/ Abs(dy) > 250 * CENTI THEN FALSE
     ELSE dx * dx + dy * dy < (this.radius + circle.radius) * (this.radius + circle.radius)

\* collidesWith of both shape classes: the dispatch on the other shape's class.
collidesWith(this, other) ==
  IF this.type = "rect"
  THEN IF other.type = "rect" THEN collidesWithRect(this, other)
       ELSE collidesWithCircle(this, other)
  ELSE IF other.type = "rect" THEN collidesWithCircle(other, this)
       ELSE circleCollidesWithCircle(this, other)

(***************************************************************************)
(* The Car.                                                                *)
(***************************************************************************)
\* new Car(stats, onScoreUpdate): the state the constructor leaves.
NewCar ==
  [worldPosition |-> [x |-> 0, y |-> 0],
   width |-> baseWidth, height |-> baseHeight,
   rotation |-> 0, velocity |-> 0, lateralVelocity |-> 0, steeringAngle |-> 0,
   angularVelocity |-> [nan |-> FALSE, value |-> 0],
   activeEffects |-> << >>,
   crashed |-> FALSE,
   shape |-> RectShapeImpl(0, 0, baseWidth, baseHeight, 0)]

\* The filter that update() and getEffectiveMaxSpeed() both apply to activeEffects:
\* an effect whose startTime is falsy (0 included) is dropped, a permanent effect
\* (duration 0) is kept, a timed one is kept while now - startTime < duration.
FilterEffects(effects, t) ==
  SelectSeq(effects, LAMBDA e : e.startTime # 0 /\ (e.duration = 0 \/ t - e.startTime < e.duration))

\* The multiplier loop of getEffectiveMaxSpeed over the filtered effects (MILLI).
RECURSIVE MaxSpeedMultiplier(_, _, _)
MaxSpeedMultiplier(effects, t, acc) ==
  IF effects = << >> THEN acc
  ELSE LET e == Head(effects)
           counts == e.type = "maxSpeed" /\ e.startTime # 0
                     /\ e.duration > 0 /\ t - e.startTime < e.duration
       IN MaxSpeedMultiplier(Tail(effects), t, IF counts THEN Max(acc, e.value) ELSE acc)

\* Car.getEffectiveMaxSpeed at clock reading t (MILLI).
getEffectiveMaxSpeed(effects, t) ==
  Quot(maxSpeed * MaxSpeedMultiplier(FilterEffects(effects, t), t, MILLI), MILLI)

\* updateSteering without the Math.max / Math.min clamp.
updateSteering_unclamped(c, controls) ==
  IF controls.left
  THEN [c EXCEPT !.steeringAngle = @ - steeringSpeed]
  ELSE IF controls.right
  THEN [c EXCEPT !.steeringAngle = @ + steeringSpeed]
  ELSE IF Abs(c.steeringAngle) < steeringSpeed
  THEN [c EXCEPT !.steeringAngle = 0]
  ELSE [c EXCEPT !.steeringAngle = @ - Sign(@) * steeringSpeed]

\* Car.updateSteering
updateSteering(c, controls) ==
  IF controls.left
  THEN [c EXCEPT !.steeringAngle = Max(-maxSteeringAngle, @ - steeringSpeed)]
  ELSE IF controls.right
  THEN [c EXCEPT !.steeringAngle = Min(maxSteeringAngle, @ + steeringSpeed)]
  ELSE IF Abs(c.steeringAngle) < steeringSpeed
  THEN [c EXCEPT !.steeringAngle = 0]
  ELSE [c EXCEPT !.steeringAngle = @ - Sign(@) * steeringSpeed]

\* The accelerating branch without the Math.min cap.
Accelerate_uncapped(velocity, effectiveMaxSpeed, deltaTime) ==
  LET accelerationCurve == MILLI - Quot(velocity * 800, effectiveMaxSpeed)
  IN velocity + Quot(stats.acceleration * accelerationCurve * deltaTime, 16 * MILLI)

\* The accelerating branch of updateVelocity: the curve and the cap.
Accelerate(velocity, effectiveMaxSpeed, deltaTime) ==
  LET accelerationCurve == MILLI - Quot(velocity * 800, effectiveMaxSpeed)
  IN Min(velocity + Quot(stats.acceleration * accelerationCurve * deltaTime, 16 * MILLI),
         effectiveMaxSpeed)

\* The braking/reverse branch of updateVelocity.
Brake(velocity, effectiveMaxSpeed, deltaTime) ==
  Max(velocity - Quot(stats.acceleration * 7 * deltaTime, 160),
      -(effectiveMaxSpeed \div 2))

\* Car.updateVelocity; getEffectiveMaxSpeed also filters activeEffects.
updateVelocity(c, controls, deltaTime, t) ==
  LET effectiveMaxSpeed == getEffectiveMaxSpeed(c.activeEffects, t)
      v1 == IF controls.up THEN Accelerate(c.velocity, effectiveMaxSpeed, deltaTime)
            ELSE IF controls.down THEN Brake(c.velocity, effectiveMaxSpeed, deltaTime)
            ELSE c.velocity
      v2 == Quot(v1 * PowAir(deltaTime), 10000)
  IN [c EXCEPT !.activeEffects = FilterEffects(c.activeEffects, t),
               !.velocity = IF Abs(v2) < 100 THEN 0 ELSE v2]

\* The steering-effectiveness reduction above SPEED_THRESHOLD (MILLI); 1 below it.
reductionFactor(velocity) ==
  LET SPEED_THRESHOLD == stats.maxSpeed \div 2
      MAX_EXCESS_SPEED == stats.maxSpeed \div 10
      excessSpeed == Abs(velocity) - SPEED_THRESHOLD
      slipRatio == Quot(excessSpeed * MILLI, MAX_EXCESS_SPEED)
  IN IF Abs(velocity) > SPEED_THRESHOLD THEN MILLI - slipRatio \div 2 ELSE MILLI

\* The effective turn factor of updatePosition (MILLI): tan(steeringAngle) scaled
\* down by the grip limit and by the high-speed reduction.
effectiveTan(velocity, steeringAngle) ==
  LET rawTan == Tan(steeringAngle)
      lateralAcceleration == Abs(Quot(Quot(velocity * velocity, MILLI) * rawTan, MILLI * wheelbase))
      speedFactor == Min(Quot(Abs(velocity) * MILLI, stats.maxSpeed), MILLI)
      effectiveG == 10 * MILLI - 9 * speedFactor
      gripLimit == Quot(stats.handling * effectiveG, MILLI)
      scale == IF lateralAcceleration > gripLimit
               THEN Quot(gripLimit * MILLI, Max(lateralAcceleration, 100))
               ELSE MILLI
  IN Quot(Quot(rawTan * scale, MILLI) * reductionFactor(velocity), MILLI)

\* Car.updatePosition after rawTan and effectiveTan are known: drift, position
\* and rotation integration, the new shape and the turning deceleration.
\* dt = clampedDeltaTime / 50.
integratePosition(c, clampedDeltaTime, rawTan, effTan) ==
  LET v == c.velocity
      driftAccel == Quot(Quot(Quot(v * v, MILLI), wheelbase) * (rawTan - effTan), MILLI)
      maxDriftAccel == stats.maxSpeed * 3
      clampedDriftAccel == Max(-maxDriftAccel, Min(maxDriftAccel, driftAccel))
      lat1 == c.lateralVelocity + Quot(clampedDriftAccel * clampedDeltaTime, 50)
      lat2 == Quot(lat1 * (50 - 3 * clampedDeltaTime), 50)
      forwardVec == [x |-> Sin(c.rotation), y |-> -Cos(c.rotation)]
      lateralVec == [x |-> Cos(c.rotation), y |-> Sin(c.rotation)]
      \* in CENTI: maxSpeed * dt * 2
      maxDelta == Quot(stats.maxSpeed * clampedDeltaTime * 2 * CENTI, 50 * MILLI)
      deltaX == Quot(Quot(v * forwardVec.x + lat2 * lateralVec.x, MILLI) * clampedDeltaTime * CENTI,
                     50 * MILLI)
      deltaY == Quot(Quot(v * forwardVec.y + lat2 * lateralVec.y, MILLI) * clampedDeltaTime * CENTI,
                     50 * MILLI)
      x1 == c.worldPosition.x + Max(-maxDelta, Min(maxDelta, deltaX))
      y1 == c.worldPosition.y + Max(-maxDelta, Min(maxDelta, deltaY))
      steeringRotation == Quot(Quot(v * effTan, MILLI) * clampedDeltaTime, wheelbase * 50)
      slipAngle == IF v # 0 THEN Atan2(lat2, Abs(v)) ELSE 0
      rotationChange == steeringRotation - Quot(slipAngle * clampedDeltaTime, 50)
      rotation1 == c.rotation + rotationChange
      \* rotationChange / dt: with dt = 0 this is 0 / 0
      angularVelocity1 == IF clampedDeltaTime = 0 THEN [nan |-> TRUE, value |-> 0]
                          ELSE [nan |-> FALSE, value |-> Quot(rotationChange * 50, clampedDeltaTime)]
      turnDeceleration == Abs(effTan) * 2
      slowBy == Quot(turnDeceleration * clampedDeltaTime, 50)
      v1 == IF v > 0 THEN Max(v - slowBy, 0)
            ELSE IF v < 0 THEN Min(v + slowBy, 0) ELSE v
  IN [c EXCEPT !.lateralVelocity = lat2,
               !.worldPosition = [x |-> x1, y |-> y1],
               !.rotation = rotation1,
               !.angularVelocity = angularVelocity1,
               !.shape = RectShapeImpl(x1, y1, c.width, c.height, rotation1),
               !.velocity = v1]

\* updatePosition leaving the collision shape as it was.
updatePosition_keepingShape(c, deltaTime) ==
  [integratePosition(c, Min(deltaTime, 32), Tan(c.steeringAngle),
                     effectiveTan(c.velocity, c.steeringAngle))
     EXCEPT !.shape = c.shape]

\* Car.updatePosition(deltaTime): the step is clamped to 32 ms.
updatePosition(c, deltaTime) ==
  integratePosition(c, Min(deltaTime, 32), Tan(c.steeringAngle),
                    effectiveTan(c.velocity, c.steeringAngle))

\* The last statement of Car.update: this.shape.setPosition(worldPosition).
syncShape(c) ==
  [c EXCEPT !.shape = setPosition(c.shape, c.worldPosition.x, c.worldPosition.y)]

\* update without the early return of a crashed car.
update_withoutCrashGuard(c, controls, deltaTime, t) ==
  LET c0 == [c EXCEPT !.activeEffects = FilterEffects(c.activeEffects, t)]
      c1 == updateSteering(c0, controls)
      c2 == updateVelocity(c1, controls, deltaTime, t)
  IN syncShape(updatePosition(c2, deltaTime))

\* Car.update(controls, deltaTime) at clock reading t.  updatePhysics only
\* writes the wheels' force fields and is left out.
update(c, controls, deltaTime, t) ==
  IF c.crashed THEN c
  ELSE LET c0 == [c EXCEPT !.activeEffects = FilterEffects(c.activeEffects, t)]
           c1 == updateSteering(c0, controls)
           c2 == updateVelocity(c1, controls, deltaTime, t)
       IN syncShape(updatePosition(c2, deltaTime))

\* Car.applyEffect(effect) at clock reading t: what it does to the car.  The score
\* callback is in the actions that call it.
applyEffect(c, effect, t) ==
  LET stamped == [type |-> effect.type, value |-> effect.value,
                  duration |-> effect.duration, startTime |-> t]
      c1 == [c EXCEPT !.activeEffects = Append(@, stamped)]
  IN IF effect.type = "size"
     THEN updatePosition([c1 EXCEPT !.height = baseHeight + effect.value * CENTI], 0)
     ELSE c1

\* The points applyEffect hands to onScoreUpdate.
scorePoints(effect) == IF effect.type = "score" THEN effect.value ELSE 0

\* crash as a toggle of the flag.
crash_toggling(c) == [c EXCEPT !.crashed = ~@]

\* Car.crash
crash(c) == [c EXCEPT !.crashed = TRUE]

\* Car.isCrashed
isCrashed(c) == c.crashed

(***************************************************************************)
(* The road configuration, the map entities and their manager.             *)
(***************************************************************************)
\* DEFAULT_ROAD_CONFIG, lengths in CENTI.
DEFAULT_ROAD_CONFIG ==
  [roadWidth |-> 800 * CENTI, obstacleWidth |-> 80 * CENTI, obstacleHeight |-> 40 * CENTI,
   obstacleSpacing |-> 300 * CENTI, wallTransitionScore |-> 5000 * CENTI,
   initialObstacleY |-> -1000 * CENTI]

config == DEFAULT_ROAD_CONFIG

\* The effects the entities hand to car.applyEffect: the power-up's boost, the
\* cyclist's score and size.
speedBoostEffect == [type |-> "maxSpeed", value |-> 1500, duration |-> 5000]
scoreEffect == [type |-> "score", value |-> 100, duration |-> 0]
sizeEffect == [type |-> "size", value |-> 20, duration |-> 0]

\* new MapEntity(config): kind names the closures the manager gave it; the
\* cyclist's closure variables (minX, maxX, moveDirection, currentX, isHit) are
\* fields, zero on the other kinds.
MapEntity(kind, shape, deactivateOnHit) ==
  [kind |-> kind, shape |-> shape, isActive |-> TRUE, deactivateOnHit |-> deactivateOnHit,
   minX |-> 0, maxX |-> 0, moveDirection |-> 0, currentX |-> 0, isHit |-> FALSE]

\* minX + Math.random() * (maxX - minX), the draw r in 1/1000.
randomBetween(minX, maxX, r) == minX + Quot(r * (maxX - minX), MILLI)

\* A power-up built without deactivateOnHit.
generatePowerUp_keptOnHit(y, draws) ==
  LET minX == -(config.roadWidth \div 2) + config.obstacleWidth
      maxX == config.roadWidth \div 2 - config.obstacleWidth
      x == randomBetween(minX, maxX, draws.a)
  IN << MapEntity("powerUp", CircleShapeImpl(x, y, 20 * CENTI), FALSE) >>

\* MapEntityManager.generatePowerUp: draws.a places it, draws.b picks the
\* (only) power-up type.
generatePowerUp(y, draws) ==
  LET minX == -(config.roadWidth \div 2) + config.obstacleWidth
      maxX == config.roadWidth \div 2 - config.obstacleWidth
      x == randomBetween(minX, maxX, draws.a)
  IN << MapEntity("powerUp", CircleShapeImpl(x, y, 20 * CENTI), TRUE) >>

\* MapEntityManager.generateCyclist: draws.a places it, draws.b is its direction.
generateCyclist(y, draws) ==
  LET minX == -(config.roadWidth \div 2) + 30 * CENTI
      maxX == config.roadWidth \div 2 - 30 * CENTI
      x == randomBetween(minX, maxX, draws.a)
      radius == (30 * CENTI) \div 2
  IN << [MapEntity("cyclist", CircleShapeImpl(x, y, radius), FALSE)
           EXCEPT !.minX = minX, !.maxX = maxX, !.currentX = x,
                  !.moveDirection = IF draws.b > 500 THEN 1 ELSE -1] >>

\* MapEntityManager.generateWallObstacle: draws.a is the gap's width, draws.b
\* its position; the two sections are rectangles built from their left edge
\* and width.
generateWallObstacle(y, draws) ==
  LET gapWidth == randomBetween(100 * CENTI, 200 * CENTI, draws.a)
      gapPosition == -(config.roadWidth \div 2) + Quot(draws.b * (config.roadWidth - gapWidth), MILLI)
      createWallSection(x, width) ==
        MapEntity("wall", RectShapeImpl(x, y, width, config.obstacleHeight, 0), FALSE)
  IN << createWallSection(-(config.roadWidth \div 2), gapPosition + config.roadWidth \div 2),
        createWallSection(gapPosition + gapWidth,
                          config.roadWidth \div 2 - (gapPosition + gapWidth)) >>

\* MapEntityManager.generateBoxObstacle: draws.a places it.
generateBoxObstacle(y, draws) ==
  LET minX == -(config.roadWidth \div 2) + config.obstacleWidth
      maxX == config.roadWidth \div 2 - config.obstacleWidth
      x == randomBetween(minX, maxX, draws.a)
  IN << MapEntity("box", RectShapeImpl(x, y, config.obstacleWidth, config.obstacleHeight, 0),
                  FALSE) >>

\* The obstacle branch with the wall starting at the transition score itself.
generateObstacle_wallAtThreshold(y, draws) ==
  IF Abs(y) >= config.wallTransitionScore
  THEN generateWallObstacle(y, draws)
  ELSE generateBoxObstacle(y, draws)

\* The branch of generateRandomEntity taken when neither random draw picks a
\* power-up or a cyclist: a wall beyond the transition score, else a box.
generateObstacle(y, draws) ==
  IF Abs(y) > config.wallTransitionScore
  THEN generateWallObstacle(y, draws)
  ELSE generateBoxObstacle(y, draws)

\* MapEntityManager.generateRandomEntity(y): the entities it pushes.  draws is
\* the outcome of its Math.random() calls in 1/1000: kind1 and kind2 decide the
\* kind, a and b are the generator's own draws.
generateRandomEntity(y, draws) ==
  LET progress == Abs(y)
      powerUpChance == Max(100, Min(300, Quot(progress, 20 * CENTI)))
      cyclistChance == Max(150, Min(400, Quot(progress, 15 * CENTI)))
  IN IF draws.kind1 < powerUpChance THEN generatePowerUp(y, draws)
     ELSE IF draws.kind2 < cyclistChance THEN generateCyclist(y, draws)
     ELSE generateObstacle(y, draws)

\* Math.random(): a deterministic generator.  DrawTable lists the outcomes
\* that successive generateRandomEntity calls see, rng is the position in it.
DrawTable ==
  << [kind1 |-> 999, kind2 |-> 999, a |-> 0,   b |-> 0],
     [kind1 |-> 500, kind2 |-> 0,   a |-> 0,   b |-> 0],
     [kind1 |-> 0,   kind2 |-> 0,   a |-> 999, b |-> 0],
     [kind1 |-> 999, kind2 |-> 999, a |-> 999, b |-> 0],
     [kind1 |-> 500, kind2 |-> 500, a |-> 750, b |-> 0],
     [kind1 |-> 500, kind2 |-> 100, a |-> 900, b |-> 999],
     [kind1 |-> 400, kind2 |-> 400, a |-> 250, b |-> 0],
     [kind1 |-> 0,   kind2 |-> 500, a |-> 500, b |-> 0],
     [kind1 |-> 500, kind2 |-> 500, a |-> 500, b |-> 0],
     [kind1 |-> 500, kind2 |-> 500, a |-> 450, b |-> 500],
     [kind1 |-> 500, kind2 |-> 0,   a |-> 500, b |-> 999],
     [kind1 |-> 999, kind2 |-> 300, a |-> 600, b |-> 999] >>

drawsAt(seed) == DrawTable[(seed % Len(DrawTable)) + 1]

\* MapEntityManager.generateInitialEntities, from the empty list.
RECURSIVE generateInitialEntities(_, _, _)
generateInitialEntities(entities, i, seed) ==
  IF i >= 3 THEN entities
  ELSE generateInitialEntities(
         entities \o generateRandomEntity(config.initialObstacleY - i * config.obstacleSpacing,
                                          drawsAt(seed + i)),
         i + 1, seed)

\* new MapEntityManager(config): the spawn cursor stays at initialObstacleY.
NewMapEntityManager(seed) ==
  [entities |-> generateInitialEntities(<< >>, 0, seed),
   nextEntityY |-> config.initialObstacleY,
   seed |-> seed + 3,
   spawnYs |-> [i \in 1..3 |-> config.initialObstacleY - (i - 1) * config.obstacleSpacing]]

\* The spawn loop of MapEntityManager.update.
RECURSIVE spawnEntities(_, _)
spawnEntities(em, visibleTop) ==
  IF em.nextEntityY > visibleTop
  THEN spawnEntities([entities |-> em.entities \o generateRandomEntity(em.nextEntityY, drawsAt(em.seed)),
                      nextEntityY |-> em.nextEntityY - config.obstacleSpacing,
                      seed |-> em.seed + 1,
                      spawnYs |-> Append(em.spawnYs, em.nextEntityY)],
                     visibleTop)
  ELSE em

\* MapEntity.update(deltaTime): the cyclist's onUpdate moves it sideways and
\* bounces it off the road edges; cyclistSpeed is 0.5.
entityUpdate(e, deltaTime) ==
  IF e.isActive /\ e.kind = "cyclist" /\ ~e.isHit
  THEN LET moved == e.currentX + Quot(50 * e.moveDirection * deltaTime, 16)
           currentX == IF moved < e.minX THEN e.minX
                       ELSE IF moved > e.maxX THEN e.maxX ELSE moved
           bounced == moved < e.minX \/ moved > e.maxX
       IN [e EXCEPT !.currentX = currentX,
                    !.moveDirection = IF bounced THEN -@ ELSE @,
                    !.shape = setPosition(@, currentX, e.shape.y)]
  ELSE e

\* MapEntityManager.update after the spawn loop: update every entity, then
\* keep the active ones strictly inside (visibleTop, visibleBottom).
updateAndCleanUp(em, visibleTop, visibleBottom, deltaTime) ==
  [em EXCEPT !.entities =
     SelectSeq([i \in 1..Len(em.entities) |-> entityUpdate(em.entities[i], deltaTime)],
               LAMBDA e : e.isActive /\ e.shape.y > visibleTop /\ e.shape.y < visibleBottom)]

\* MapEntityManager.update(lastCarY, deltaTime): the spawn loop, then the rest.
entityManagerUpdate(em, lastCarY, deltaTime) ==
  updateAndCleanUp(spawnEntities(em, lastCarY - 2000 * CENTI),
                   lastCarY - 2000 * CENTI, lastCarY + 1000 * CENTI, deltaTime)

\* onHit with a box or wall that leaves the car alone.
onHit_obstacleHarmless(e, c, t) ==
  IF e.kind = "powerUp"
  THEN [entity |-> e, car |-> applyEffect(c, speedBoostEffect, t), points |-> 0]
  ELSE IF e.kind = "cyclist"
  THEN IF e.isHit THEN [entity |-> e, car |-> c, points |-> 0]
       ELSE [entity |-> [e EXCEPT !.isHit = TRUE],
             car |-> applyEffect(applyEffect(c, scoreEffect, t), sizeEffect, t),
             points |-> scorePoints(scoreEffect) + scorePoints(sizeEffect)]
  ELSE [entity |-> e, car |-> c, points |-> 0]

\* onHit with a cyclist that does not test isHit.
onHit_cyclistRepeats(e, c, t) ==
  IF e.kind = "powerUp"
  THEN [entity |-> e, car |-> applyEffect(c, speedBoostEffect, t), points |-> 0]
  ELSE IF e.kind = "cyclist"
  THEN [entity |-> [e EXCEPT !.isHit = TRUE],
        car |-> applyEffect(applyEffect(c, scoreEffect, t), sizeEffect, t),
        points |-> scorePoints(scoreEffect) + scorePoints(sizeEffect)]
  ELSE [entity |-> e, car |-> crash(c), points |-> 0]

\* The onHit closure of an entity: what it does to the car and to itself, and
\* the points the car's score callback receives.
onHit(e, c, t) ==
  IF e.kind = "powerUp"
  THEN [entity |-> e, car |-> applyEffect(c, speedBoostEffect, t), points |-> 0]
  ELSE IF e.kind = "cyclist"
  THEN IF e.isHit THEN [entity |-> e, car |-> c, points |-> 0]
       ELSE [entity |-> [e EXCEPT !.isHit = TRUE],
             car |-> applyEffect(applyEffect(c, scoreEffect, t), sizeEffect, t),
             points |-> scorePoints(scoreEffect) + scorePoints(sizeEffect)]
  ELSE [entity |-> e, car |-> crash(c), points |-> 0]

\* handleCollision deactivating every entity that was hit.
afterHit_deactivating(e, hit) ==
  [entity |-> [hit.entity EXCEPT !.isActive = FALSE],
   car |-> hit.car, points |-> hit.points, invoked |-> TRUE]

\* MapEntity.handleCollision once onHit has returned hit: the entity is
\* deactivated if it was built with deactivateOnHit.
afterHit(e, hit) ==
  [entity |-> [hit.entity EXCEPT !.isActive = IF e.deactivateOnHit THEN FALSE ELSE @],
   car |-> hit.car, points |-> hit.points, invoked |-> TRUE]

\* MapEntity.handleCollision; invoked tells whether onHit was called.
handleCollision(e, c, t) ==
  IF e.isActive
  THEN afterHit(e, onHit(e, c, t))
  ELSE [entity |-> e, car |-> c, points |-> 0, invoked |-> FALSE]

\* The state of a collision pass (the entities, the car, the points scored)
\* after entity i's handleCollision returned hit.  hits keeps every entity
\* whose onHit was invoked, as it was at the call; carShape and found are the
\* car's shape and the entity list that the pass was given.
collided(pass, i, hit) ==
  [pass EXCEPT !.entities[i] = hit.entity, !.car = hit.car,
               !.points = @ + hit.points,
               !.hits = IF hit.invoked THEN Append(@, pass.entities[i]) ELSE @]

\* MapEntityManager.checkCollision: the loop from entity i on; carShape is the
\* shape the car had when the pass began.
RECURSIVE checkCollisionFrom(_, _, _, _)
checkCollisionFrom(pass, i, carShape, t) ==
  IF i > Len(pass.entities) THEN pass
  ELSE checkCollisionFrom(
         IF pass.entities[i].isActive /\ collidesWith(pass.entities[i].shape, carShape)
         THEN collided(pass, i, handleCollision(pass.entities[i], pass.car, t))
         ELSE pass,
         i + 1, carShape, t)

checkCollision(entities, c, t) ==
  checkCollisionFrom([entities |-> entities, car |-> c, points |-> 0, hits |-> << >>,
                      carShape |-> c.shape, found |-> entities],
                     1, c.shape, t)

\* render without the isActive guard.
render_unguarded(e) == TRUE

\* MapEntity.render: the draw hook is invoked for an active entity only.
render(e) == e.isActive

\* RoadRenderer.drawEntities: render() on every entity of the list; the
\* result is the entities whose draw hook was invoked.
drawEntities(entities) == SelectSeq(entities, render)

\* new Road(): lastCarY and lastTimestamp start at 0.
NewRoad == [lastCarY |-> 0, lastTimestamp |-> 0]

(***************************************************************************)
(* State.                                                                  *)
(***************************************************************************)
VARIABLES
  car,            \* the fields of the Game's current Car
  carId,          \* which Car object it is: restart() constructs a new one
  now,            \* the reading of performance.now(), in ms
  score,          \* gameState.score, fed by the car's onScoreUpdate callback
  controls,       \* Game.controls
  isGameOver,     \* gameState.isGameOver
  distance,       \* gameState.distance (CENTI)
  lastTimestamp,  \* Game.lastTimestamp
  running,        \* an animation frame is requested (animationFrameId is not null)
  frameStep,      \* the display's frame interval (ms)
  road,           \* Road.lastCarY and Road.lastTimestamp
  entityManager,  \* the MapEntityManager: entities, nextEntityY, the random seed, and
                  \* (history) spawnYs, the Y of every generateRandomEntity call so far
  lastOp,         \* history: the last operation performed
  applied,        \* history: every effect handed to applyEffect of this car, with its t0
  updates,        \* history: the number of ticks run
  released,       \* history: consecutive steering updates run with neither left nor right held
  tickStartY,     \* history: the car's Y when the last tick began
  frameLog,       \* history: what the last frame did (its steps, the collision pass, the
                  \* draw) and the deltaTime it gave to car.update and to the entities
  probe           \* history: the last pair of shapes tested against each other

carVars == << car, carId, score, applied, released >>
gameVars == << controls, isGameOver, distance, lastTimestamp, running, frameStep, road,
               entityManager, tickStartY, frameLog, probe >>
vars == << car, carId, now, score, controls, isGameOver, distance, lastTimestamp, running,
           frameStep, road, entityManager, lastOp, applied, updates, released, tickStartY,
           frameLog, probe >>

(***************************************************************************)
(* Bounds and input sets.                                                  *)
(***************************************************************************)
MaxUpdates == 1
MaxEffects == 1
MaxNow == 16
MaxTimedEffects == 2
MaxClock == 64
MaxSteerTicks == 20
MaxAccelTicks == 3
MaxSteadyTicks == 300
MaxFrames == 450
MaxPickupFrames == 3
MaxContactFrames == 3
MaxRestartFrames == 4
\* Ticks of SpecHeld.
MaxHeldTicks == 4
\* The clock reading (ms) up to which SpecBoost runs: past the end of a
\* power-up's boost of 5000 ms.
MaxBoostClock == 5400
\* The number of released ticks within which the steering is back at centre.
ReturnTicks == maxSteeringAngle \div steeringSpeed + 1

Controls == [up : BOOLEAN, down : BOOLEAN, left : BOOLEAN, right : BOOLEAN]
NoControls == [up |-> FALSE, down |-> FALSE, left |-> FALSE, right |-> FALSE]
\* Per-tick deltaTime values (ms): the first frame's 0, a 60 Hz frame, and the
\* cap of Game.animate.
DeltaTimes == {0, 16, 100}
ClockSteps == {16}
\* Frame intervals (ms): 60 Hz and 30 Hz displays.
FrameSteps == {16, 32}
StartTimes == {16, 1000}
Seeds == 0..(Len(DrawTable) - 1)
EntityEffects == {speedBoostEffect, scoreEffect, sizeEffect}
Keys == {"arrowup", "arrowdown", "arrowleft", "arrowright", " "}

(***************************************************************************)
(* Operations on the Car.                                                  *)
(***************************************************************************)
\* No frame has run.
NoLog ==
  [steps |-> << >>, carShape |-> NewCar.shape, found |-> << >>, hits |-> << >>,
   drawn |-> << >>, carDeltaTime |-> 0, roadDeltaTime |-> 0]

\* No pair of shapes has been tested.
NoProbe ==
  [tested |-> FALSE, a |-> NewCar.shape, b |-> NewCar.shape, ab |-> FALSE, ba |-> FALSE]

InitCar ==
  /\ car = NewCar
  /\ carId = 1
  /\ score = 0
  /\ lastOp = "new"
  /\ applied = << >>
  /\ updates = 0
  /\ released = 0

\* The state of a Car that no Game drives.
NoGame ==
  /\ controls = NoControls
  /\ isGameOver = FALSE
  /\ distance = 0
  /\ lastTimestamp = 0
  /\ running = FALSE
  /\ frameStep = 0
  /\ road = NewRoad
  /\ entityManager = [entities |-> << >>, nextEntityY |-> 0, seed |-> 0, spawnYs |-> << >>]
  /\ tickStartY = 0
  /\ frameLog = NoLog
  /\ probe = NoProbe

\* The history of released steering ticks after update(controls) on car c.
NextReleased(c, ctl) ==
  IF c.crashed THEN released
  ELSE IF ctl.left \/ ctl.right THEN 0
  ELSE Min(released + 1, ReturnTicks)

\* The history of applied effects after applyEffect(effect) at time t.
Stamped(effect, t) ==
  [type |-> effect.type, value |-> effect.value, duration |-> effect.duration, startTime |-> t]

\* car.update(ctl, deltaTime)
Update(ctl, deltaTime) ==
  /\ car' = update(car, ctl, deltaTime, now)
  /\ released' = NextReleased(car, ctl)
  /\ updates' = IF car.crashed THEN updates ELSE updates + 1
  /\ lastOp' = "update"
  /\ UNCHANGED << carId, now, score, applied >>
  /\ UNCHANGED gameVars

\* car.crash()
Crash ==
  /\ car' = crash(car)
  /\ lastOp' = "crash"
  /\ UNCHANGED << carId, now, score, applied, updates, released >>
  /\ UNCHANGED gameVars

\* car.applyEffect(effect)
ApplyEffect(effect) ==
  /\ car' = applyEffect(car, effect, now)
  /\ score' = score + scorePoints(effect)
  /\ applied' = Append(applied, Stamped(effect, now))
  /\ lastOp' = "applyEffect"
  /\ UNCHANGED << carId, now, updates, released >>
  /\ UNCHANGED gameVars

\* Time passes between two calls.
Advance(step) ==
  /\ now' = now + step
  /\ lastOp' = "advance"
  /\ UNCHANGED << updates >>
  /\ UNCHANGED carVars
  /\ UNCHANGED gameVars

(***************************************************************************)
(* The Game: construction, start(), the animation frame and the keys.      *)
(***************************************************************************)
\* The fields of the Game and of the objects it owns, as one record.
Game ==
  [car |-> car, controls |-> controls, isGameOver |-> isGameOver, score |-> score,
   distance |-> distance, lastTimestamp |-> lastTimestamp, road |-> road,
   entityManager |-> entityManager, log |-> frameLog]

\* Road.update(timestamp): its own, unclamped deltaTime, and the car Y that the
\* previous frame's draw stored.
roadUpdate(rd, em, timestamp) ==
  [road |-> [rd EXCEPT !.lastTimestamp = timestamp],
   entityManager |-> entityManagerUpdate(em, rd.lastCarY, timestamp - rd.lastTimestamp),
   deltaTime |-> timestamp - rd.lastTimestamp]

\* Road.draw: stores the car's Y for the next frame's update.
roadDraw(rd, carWorldPos) == [rd EXCEPT !.lastCarY = carWorldPos.y]

\* Game.animate after the collision pass returned hit: the distance, the
\* score, the game-over flag and the drawing (road.draw).
animateFinish(g, timestamp, car1, rd1, hit) ==
  [g EXCEPT !.lastTimestamp = timestamp,
            !.car = hit.car,
            !.entityManager = [rd1.entityManager EXCEPT !.entities = hit.entities],
            !.distance = Abs(car1.worldPosition.y),
            !.score = g.score + hit.points,
            !.isGameOver = isCrashed(hit.car),
            !.road = roadDraw(rd1.road, hit.car.worldPosition),
            !.log = [steps |-> << "car.update", "road.update", "checkCollision", "road.draw" >>,
                     carShape |-> hit.carShape, found |-> hit.found, hits |-> hit.hits,
                     drawn |-> drawEntities(hit.entities),
                     carDeltaTime |-> Min(timestamp - g.lastTimestamp, 100),
                     roadDeltaTime |-> rd1.deltaTime]]

\* The collision pass run on the car and the entities as the previous frame
\* left them.
animateCollide_beforeUpdates(g, timestamp, car1, rd1) ==
  animateFinish(g, timestamp, car1, rd1,
                checkCollision(g.entityManager.entities, g.car, timestamp))

\* Game.animate from the collision pass on, after car.update left car1 and
\* road.update left rd1.
animateCollide(g, timestamp, car1, rd1) ==
  animateFinish(g, timestamp, car1, rd1,
                checkCollision(rd1.entityManager.entities, car1, timestamp))

\* animate without the test of isGameOver.
animate_ignoringGameOver(g, timestamp) ==
  animateCollide(g, timestamp,
                 update(g.car, g.controls, Min(timestamp - g.lastTimestamp, 100), timestamp),
                 roadUpdate(g.road, g.entityManager, timestamp))

\* Game.animate(timestamp): car.update, road.update, the distance, the
\* collision pass, the game-over flag, then the drawing (road.draw).
animate(g, timestamp) ==
  IF g.isGameOver
  THEN [g EXCEPT !.lastTimestamp = timestamp,
                 !.road = roadDraw(g.road, g.car.worldPosition),
                 !.log = [steps |-> << "road.draw" >>, carShape |-> g.car.shape,
                          found |-> << >>, hits |-> << >>,
                          drawn |-> drawEntities(g.entityManager.entities),
                          carDeltaTime |-> 0, roadDeltaTime |-> 0]]
  ELSE animateCollide(g, timestamp,
                      update(g.car, g.controls, Min(timestamp - g.lastTimestamp, 100), timestamp),
                      roadUpdate(g.road, g.entityManager, timestamp))

\* Game.start() at clock reading t: resets the game state and runs the first
\* frame with timestamp = lastTimestamp.
start(g, t) ==
  animate([g EXCEPT !.isGameOver = FALSE, !.score = 0, !.distance = 0, !.lastTimestamp = t], t)

\* Game.restart(): a new Car, a new Road (and entity manager), released
\* controls, then start().
restart(g, t) ==
  start([g EXCEPT !.car = NewCar, !.road = NewRoad,
                  !.entityManager = NewMapEntityManager(g.entityManager.seed),
                  !.controls = NoControls], t)

\* Game.handleKeyDown / handleKeyUp: the control a key drives.
keyControl(key) ==
  IF key = "arrowup" THEN "up" ELSE IF key = "arrowdown" THEN "down"
  ELSE IF key = "arrowleft" THEN "left" ELSE "right"

\* The program state becomes g.
SetGame(g) ==
  /\ car' = g.car
  /\ controls' = g.controls
  /\ isGameOver' = g.isGameOver
  /\ score' = g.score
  /\ distance' = g.distance
  /\ lastTimestamp' = g.lastTimestamp
  /\ road' = g.road
  /\ entityManager' = g.entityManager
  /\ frameLog' = g.log

\* The effects that the collision pass of a frame at time t handed to car c0,
\* which became c1.
NewlyApplied(c0, c1, t) ==
  LET kept == IF c0.crashed THEN Len(c0.activeEffects)
              ELSE Len(FilterEffects(c0.activeEffects, t))
  IN SubSeq(c1.activeEffects, kept + 1, Len(c1.activeEffects))

\* new Game(canvas): the state the constructor leaves, but for the entity
\* manager, the clock and the display's frame interval.
InitGame ==
  /\ InitCar
  /\ controls = NoControls
  /\ isGameOver = FALSE
  /\ distance = 0
  /\ lastTimestamp = 0
  /\ running = FALSE
  /\ road = NewRoad
  /\ tickStartY = 0
  /\ frameLog = NoLog
  /\ probe = NoProbe

\* game.start()
Start ==
  /\ ~running
  /\ \E g \in {start(Game, now)} : SetGame(g)
  /\ running' = TRUE
  /\ tickStartY' = car.worldPosition.y
  /\ applied' = applied \o NewlyApplied(car, car', now)
  /\ released' = NextReleased(car, controls)
  /\ updates' = updates + 1
  /\ lastOp' = "start"
  /\ UNCHANGED << carId, now, frameStep, probe >>

\* The animation frame callback: Game.animate(timestamp), one frame interval
\* after the previous frame.
Frame ==
  /\ running
  /\ now' = now + frameStep
  /\ \E g \in {animate(Game, now + frameStep)} : SetGame(g)
  /\ tickStartY' = car.worldPosition.y
  /\ applied' = applied \o NewlyApplied(car, car', now')
  /\ released' = IF isGameOver THEN released ELSE NextReleased(car, controls)
  /\ updates' = updates + 1
  /\ lastOp' = "frame"
  /\ UNCHANGED << carId, running, frameStep, probe >>

\* Game.handleKeyDown(key): an arrow key presses its control; Space restarts a
\* game that is over.
KeyDown(key) ==
  /\ IF key = " "
     THEN IF isGameOver
          THEN /\ \E g \in {restart(Game, now)} : SetGame(g)
               /\ carId' = carId + 1
               /\ running' = TRUE
               /\ applied' = NewlyApplied(NewCar, car', now)
               /\ released' = 1
               /\ tickStartY' = 0
               /\ updates' = updates + 1
          ELSE UNCHANGED << car, carId, score, controls, isGameOver, distance, lastTimestamp,
                            running, road, entityManager, applied, released, tickStartY,
                            updates, frameLog >>
     ELSE /\ controls' = [controls EXCEPT ![keyControl(key)] = TRUE]
          /\ UNCHANGED << car, carId, score, isGameOver, distance, lastTimestamp, running,
                          road, entityManager, applied, released, tickStartY, updates,
                          frameLog >>
  /\ lastOp' = "keydown"
  /\ UNCHANGED << now, frameStep, probe >>

\* Game.handleKeyUp(key): an arrow key releases its control.
KeyUp(key) ==
  /\ key # " "
  /\ controls' = [controls EXCEPT ![keyControl(key)] = FALSE]
  /\ lastOp' = "keyup"
  /\ UNCHANGED << car, carId, now, score, isGameOver, distance, lastTimestamp, running,
                  frameStep, road, entityManager, applied, released, tickStartY, updates,
                  frameLog, probe >>

\* generateRandomEntity(y) on an empty manager, the random draws given.
Generate(y, draws) ==
  /\ entityManager' = [entities |-> generateRandomEntity(y, draws), nextEntityY |-> y,
                       seed |-> 0, spawnYs |-> << y >>]
  /\ lastOp' = "generate"
  /\ UNCHANGED << now, updates >>
  /\ UNCHANGED carVars
  /\ UNCHANGED << controls, isGameOver, distance, lastTimestamp, running, frameStep, road,
                  tickStartY, frameLog, probe >>

\* MapEntityManager.getEntities()
Entities == entityManager.entities

(***************************************************************************)
(* Spec: any sequence of calls on one Car.                                 *)
(***************************************************************************)
Init ==
  /\ InitCar
  /\ NoGame
  /\ now \in {0, 16}

Next ==
  \/ \E ctl \in Controls, deltaTime \in DeltaTimes :
       (car.crashed \/ updates < MaxUpdates) /\ Update(ctl, deltaTime)
  \/ Crash
  \/ \E effect \in EntityEffects : Len(applied) < MaxEffects /\ ApplyEffect(effect)
  \/ \E step \in ClockSteps : now + step <= MaxNow /\ Advance(step)

Spec == Init /\ [][Next]_vars

(***************************************************************************)
(* SpecEffects: effects applied to a car at rest while the clock runs.     *)
(***************************************************************************)
\* Effects a caller of applyEffect may pass, besides the entities' own: short
\* boosts that expire within the clock's range, a slow-down, a permanent one.
shortBoost == [type |-> "maxSpeed", value |-> 2000, duration |-> 32]
briefBoost == [type |-> "maxSpeed", value |-> 1200, duration |-> 16]
slowDown == [type |-> "maxSpeed", value |-> 500, duration |-> 32]
permanentBoost == [type |-> "maxSpeed", value |-> 3000, duration |-> 0]
CallerEffects == {shortBoost, briefBoost, slowDown, permanentBoost, scoreEffect, sizeEffect}

NextEffects ==
  \/ \E effect \in CallerEffects : Len(applied) < MaxTimedEffects /\ ApplyEffect(effect)
  \/ \E step \in ClockSteps : now + step <= MaxClock /\ Advance(step)
  \/ updates < MaxUpdates /\ Update(NoControls, 16)

SpecEffects == Init /\ [][NextEffects]_vars

(***************************************************************************)
(* SpecSteer: steering ticks of a car at rest.                             *)
(***************************************************************************)
SteerControls == {ctl \in Controls : ~ctl.up /\ ~ctl.down}

InitSteer ==
  /\ InitCar
  /\ NoGame
  /\ now = 16

NextSteer ==
  \E ctl \in SteerControls : updates < MaxSteerTicks /\ Update(ctl, 16)

SpecSteer == InitSteer /\ [][NextSteer]_vars

(***************************************************************************)
(* SpecAccel: 'up' held on every tick from rest, no effect applied.  With  *)
(* frameStep = 0 the deltaTime varies from tick to tick and the steering   *)
(* is free; otherwise every tick has deltaTime = frameStep.                *)
(***************************************************************************)
AccelDeltas == {16, 100, 2000}
UpControls == {ctl \in Controls : ctl.up}
UpOnly == [up |-> TRUE, down |-> FALSE, left |-> FALSE, right |-> FALSE]

InitAccel ==
  /\ InitCar
  /\ now = 16
  /\ controls = NoControls
  /\ isGameOver = FALSE
  /\ distance = 0
  /\ lastTimestamp = 0
  /\ running = FALSE
  /\ frameStep \in AccelDeltas \cup {0}
  /\ road = NewRoad
  /\ entityManager = [entities |-> << >>, nextEntityY |-> 0, seed |-> 0, spawnYs |-> << >>]
  /\ tickStartY = 0
  /\ frameLog = NoLog
  /\ probe = NoProbe

NextAccel ==
  \/ \E ctl \in UpControls, deltaTime \in AccelDeltas :
       frameStep = 0 /\ updates < MaxAccelTicks /\ Update(ctl, deltaTime)
  \/ frameStep # 0 /\ updates < MaxSteadyTicks /\ Update(UpOnly, frameStep)

SpecAccel == InitAccel /\ [][NextAccel]_vars

(***************************************************************************)
(* SpecDrive: the game, with 'up' pressed before start() and held.          *)
(***************************************************************************)
DriveKeys == {"arrowup"}

InitDrive ==
  /\ InitGame
  /\ now = 1000
  /\ frameStep \in FrameSteps
  /\ \E seed \in Seeds : entityManager = NewMapEntityManager(seed)

NextDrive ==
  \/ \E key \in DriveKeys : ~running /\ KeyDown(key)
  \/ Start
  \/ updates < MaxFrames /\ Frame

SpecDrive == InitDrive /\ [][NextDrive]_vars

(***************************************************************************)
(* SpecPickup: the game with one power-up placed at or near the car.       *)
(***************************************************************************)
PickupOffsets == {-60 * CENTI, -30 * CENTI, 0, 30 * CENTI, 60 * CENTI}

InitPickup ==
  /\ InitGame
  /\ now \in StartTimes
  /\ frameStep \in FrameSteps
  /\ \E dx \in PickupOffsets, dy \in PickupOffsets :
       entityManager = [entities |-> << MapEntity("powerUp", CircleShapeImpl(dx, dy, 20 * CENTI), TRUE) >>,
                        nextEntityY |-> config.initialObstacleY, seed |-> 0,
                        spawnYs |-> << >>]

NextPickup ==
  \/ \E key \in Keys \ {" "} : ~running /\ KeyDown(key)
  \/ \E key \in Keys \ {" "} : ~running /\ KeyUp(key)
  \/ Start
  \/ updates < MaxPickupFrames /\ Frame

SpecPickup == InitPickup /\ [][NextPickup]_vars

(***************************************************************************)
(* SpecGen: generateRandomEntity as a function of the spawn Y and of the   *)
(* random draws.                                                           *)
(***************************************************************************)
SpawnYs == {-1000 * CENTI, -4700 * CENTI, -5000 * CENTI, -5300 * CENTI, -9800 * CENTI,
            5000 * CENTI, 5300 * CENTI}
DrawValues == {0, 120, 250, 500, 999}
Draws == [kind1 : DrawValues, kind2 : DrawValues, a : DrawValues, b : DrawValues]

NextGen ==
  \E y \in SpawnYs, draws \in Draws :
    entityManager.entities = << >> /\ Generate(y, draws)

SpecGen == Init /\ [][NextGen]_vars

(***************************************************************************)
(* SpecContact: the game from the moment the car meets entities.  Up to    *)
(* two entities, built as the manager's generators build them, stand at or *)
(* just ahead of the car's front edge.                                     *)
(***************************************************************************)
ContactYs == {-55 * CENTI, -66 * CENTI}
\* The generators' random draws: the centre of the road, a gap at its left.
ContactDraws == [kind1 |-> 0, kind2 |-> 0, a |-> 500, b |-> 0]
ContactEntities(y) ==
  {<< >>, generatePowerUp(y, ContactDraws), generateCyclist(y, ContactDraws),
   generateBoxObstacle(y, ContactDraws), generateWallObstacle(y, ContactDraws)}

InitContact ==
  /\ InitGame
  /\ now \in StartTimes
  /\ frameStep \in FrameSteps
  /\ \E y1 \in ContactYs, y2 \in ContactYs :
       \E first \in ContactEntities(y1), second \in ContactEntities(y2) :
         entityManager = [entities |-> first \o second,
                          nextEntityY |-> config.initialObstacleY, seed |-> 0,
                        spawnYs |-> << >>]

NextContact ==
  \/ \E key \in DriveKeys : ~running /\ KeyDown(key)
  \/ Start
  \/ updates < MaxContactFrames /\ Frame

SpecContact == InitContact /\ [][NextContact]_vars

(***************************************************************************)
(* SpecRestart: the game of SpecContact with 'up' and Space pressed at any *)
(* time, through the crash, the frames of a game that is over and the      *)
(* restart.                                                                *)
(***************************************************************************)
RestartKeys == {"arrowup", " "}

NextRestart ==
  \/ \E key \in RestartKeys : KeyDown(key)
  \/ Start
  \/ updates < MaxRestartFrames /\ Frame

SpecRestart == InitContact /\ [][NextRestart]_vars

(***************************************************************************)
(* SpecHeld: from rest, 'up' held on every tick, every tick with the same  *)
(* deltaTime of 1 to 32 ms.  No effect is applied, so a tick does not      *)
(* depend on the clock: it is a function of the car and the deltaTime.     *)
(***************************************************************************)
InitHeld ==
  /\ InitCar
  /\ now = 16
  /\ controls = UpOnly
  /\ isGameOver = FALSE
  /\ distance = 0
  /\ lastTimestamp = 0
  /\ running = FALSE
  /\ frameStep \in 1..32
  /\ road = NewRoad
  /\ entityManager = [entities |-> << >>, nextEntityY |-> 0, seed |-> 0, spawnYs |-> << >>]
  /\ tickStartY = 0
  /\ frameLog = NoLog
  /\ probe = NoProbe

NextHeld == updates < MaxHeldTicks /\ Update(controls, frameStep)

SpecHeld == InitHeld /\ [][NextHeld]_vars

(***************************************************************************)
(* SpecBoost: a car driven at a constant frame interval that picks up the  *)
(* power-up's speed boost at some tick.  'up' is held until an applied     *)
(* boost has expired; from then on any of 'up', 'down' or no key.          *)
(***************************************************************************)
InitBoost ==
  /\ InitCar
  /\ now = 16
  /\ controls = NoControls
  /\ isGameOver = FALSE
  /\ distance = 0
  /\ lastTimestamp = 0
  /\ running = FALSE
  /\ frameStep \in {50, 100}
  /\ road = NewRoad
  /\ entityManager = [entities |-> << >>, nextEntityY |-> 0, seed |-> 0, spawnYs |-> << >>]
  /\ tickStartY = 0
  /\ frameLog = NoLog
  /\ probe = NoProbe

NextBoost ==
  \/ applied = << >> /\ ApplyEffect(speedBoostEffect)
  \/ lastOp # "advance" /\ now + frameStep <= MaxBoostClock /\ Advance(frameStep)
  \/ \E ctl \in {UpOnly, NoControls, [NoControls EXCEPT !.down = TRUE]} :
       /\ lastOp = "advance"
       /\ ctl.up \/ (applied # << >> /\ FilterEffects(car.activeEffects, now) = << >>)
       /\ Update(ctl, frameStep)

SpecBoost == InitBoost /\ [][NextBoost]_vars

(***************************************************************************)
(* SpecCyclist: one cyclist, as generateCyclist builds it at the left      *)
(* bound, the middle or near the right bound of its range, updated with    *)
(* any deltaTime and hit at any time.                                      *)
(***************************************************************************)
InitCyclist ==
  /\ InitGame
  /\ now = 16
  /\ frameStep = 0
  /\ \E a \in {0, 500, 999}, b \in {0, 999} :
       entityManager = [entities |-> generateCyclist(config.initialObstacleY,
                                                     [kind1 |-> 500, kind2 |-> 0, a |-> a, b |-> b]),
                        nextEntityY |-> config.initialObstacleY, seed |-> 0,
                        spawnYs |-> << config.initialObstacleY >>]

\* entity.update(deltaTime) on every entity, as MapEntityManager.update does.
EntityUpdate(deltaTime) ==
  /\ entityManager' = [entityManager EXCEPT !.entities =
                         [i \in 1..Len(@) |-> entityUpdate(@[i], deltaTime)]]
  /\ frameLog' = [frameLog EXCEPT !.roadDeltaTime = deltaTime]
  /\ lastOp' = "entityUpdate"
  /\ UNCHANGED << now, updates >>
  /\ UNCHANGED carVars
  /\ UNCHANGED << controls, isGameOver, distance, lastTimestamp, running, frameStep, road,
                  tickStartY, probe >>

\* entity.handleCollision(car) on the first entity, as checkCollision calls it.
HandleCollision ==
  /\ \E hit \in {handleCollision(Entities[1], car, now)} :
       /\ entityManager' = [entityManager EXCEPT !.entities[1] = hit.entity]
       /\ car' = hit.car
       /\ score' = score + hit.points
  /\ applied' = applied \o NewlyApplied(car, car', now)
  /\ lastOp' = "handleCollision"
  /\ UNCHANGED << carId, now, updates, released >>
  /\ UNCHANGED << controls, isGameOver, distance, lastTimestamp, running, frameStep, road,
                  tickStartY, frameLog, probe >>

NextCyclist ==
  \/ \E deltaTime \in {0, 16, 32, 1000, 100000} : EntityUpdate(deltaTime)
  \/ ~Entities[1].isHit /\ HandleCollision

SpecCyclist == InitCyclist /\ [][NextCyclist]_vars

(***************************************************************************)
(* SpecShapes: collidesWith on pairs of shapes, called in both orders.     *)
(***************************************************************************)
\* Centres, sizes (width, height) and rotations of the shapes tested: the
\* car's and the box's sizes and a rectangle of no width; rectangles that
\* overlap, touch and lie apart.
ProbeXs == {0, 50 * CENTI, 70 * CENTI}
ProbeYs == {0, 65 * CENTI, 200 * CENTI}
ProbeSizes == {<< baseWidth, baseHeight >>, << config.obstacleWidth, config.obstacleHeight >>,
               << 0, config.obstacleHeight >>}
ProbeRotations == {0, 300, PI \div 4, HALF_PI}
ProbeShapes ==
  {RectShapeImpl(x, y, size[1], size[2], rotation) :
     x \in ProbeXs, y \in ProbeYs, size \in ProbeSizes, rotation \in ProbeRotations}
  \cup {CircleShapeImpl(x, y, 20 * CENTI) : x \in ProbeXs, y \in ProbeYs}

\* Two shapes are constructed; neither collidesWith has been called.
InitShapes ==
  /\ InitCar
  /\ controls = NoControls
  /\ isGameOver = FALSE
  /\ distance = 0
  /\ lastTimestamp = 0
  /\ running = FALSE
  /\ frameStep = 0
  /\ road = NewRoad
  /\ entityManager = [entities |-> << >>, nextEntityY |-> 0, seed |-> 0, spawnYs |-> << >>]
  /\ tickStartY = 0
  /\ frameLog = NoLog
  /\ now = 16
  /\ \E a \in ProbeShapes, b \in ProbeShapes : probe = [NoProbe EXCEPT !.a = a, !.b = b]

\* a.collidesWith(b), then b.collidesWith(a), on the pair constructed.
CollidesWith ==
  /\ ~probe.tested
  /\ probe' = [probe EXCEPT !.tested = TRUE,
                            !.ab = collidesWith(probe.a, probe.b),
                            !.ba = collidesWith(probe.b, probe.a)]
  /\ lastOp' = "collidesWith"
  /\ UNCHANGED << now, updates >>
  /\ UNCHANGED carVars
  /\ UNCHANGED << controls, isGameOver, distance, lastTimestamp, running, frameStep, road,
                  entityManager, tickStartY, frameLog >>

NextShapes == CollidesWith

SpecShapes == InitShapes /\ [][NextShapes]_vars

(***************************************************************************)
(* The claims.                                                             *)
(***************************************************************************)
IsTick == lastOp \in {"start", "frame"}

\* C1: once crash() has been invoked on a Car, every later update(controls,
\* deltaTime), for any controls and any deltaTime, leaves the car's world
\* position, rotation and velocity unchanged.
C1_CrashedUpdateChangesNothing ==
  [][(car.crashed /\ lastOp' = "update")
       => /\ car'.worldPosition = car.worldPosition
          /\ car'.rotation = car.rotation
          /\ car'.velocity = car.velocity]_vars

\* update() has run on a crashed car that was moving.
C1_Witness == lastOp = "update" /\ car.crashed /\ car.velocity # 0

\* C2: the crashed flag is one-way: it starts false, crash() sets it true, and
\* no update, applyEffect or crash call on the same Car makes it false again.
C2_CrashedIsOneWay ==
  /\ (lastOp = "new" => ~isCrashed(car))
  /\ [][/\ (lastOp' = "crash" => isCrashed(car'))
        /\ ((isCrashed(car) /\ carId' = carId) => isCrashed(car'))]_vars

\* An effect has been applied to a crashed car that was updated before.
C2_Witness == isCrashed(car) /\ lastOp = "applyEffect" /\ updates > 0

\* C3: after any sequence of update ticks with any left/right inputs,
\* |steeringAngle| <= maxSteeringAngle, and with neither held the steering is
\* back at exactly 0 within ReturnTicks ticks.
C3_SteeringBoundedAndReturns ==
  /\ Abs(car.steeringAngle) <= maxSteeringAngle
  /\ (released >= ReturnTicks => car.steeringAngle = 0)

\* The steering, released at full lock, is one tick short of centre.
C3_Witness == released = ReturnTicks - 1 /\ car.steeringAngle # 0

\* C4: with no speed effect and 'up' held on every tick from rest, the
\* velocity after every tick is at most the base maxSpeed, for every deltaTime.
C4_VelocityWithinBaseMax == car.velocity <= maxSpeed

\* The car has accelerated beyond 85% of maxSpeed.
C4_Witness == lastOp = "update" /\ car.velocity * 100 > maxSpeed * 85

\* The i-th applied effect is a timed maxSpeed effect whose window holds now.
TimedSpeedEffectInWindow(i) ==
  /\ applied[i].type = "maxSpeed"
  /\ applied[i].duration > 0
  /\ applied[i].startTime <= now
  /\ now < applied[i].startTime + applied[i].duration

\* C5: a maxSpeed effect with duration D > 0 applied at t0 raises the
\* effective max speed for every now in [t0, t0 + D) and has no influence for
\* now >= t0 + D, for every t0 the clock can return, 0 included.
C5_SpeedEffectWindow ==
  /\ \A i \in 1..Len(applied) :
       (TimedSpeedEffectInWindow(i) /\ applied[i].value > MILLI)
         => getEffectiveMaxSpeed(car.activeEffects, now) > maxSpeed
  /\ (\A i \in 1..Len(applied) : ~TimedSpeedEffectInWindow(i))
       => getEffectiveMaxSpeed(car.activeEffects, now) = maxSpeed

\* The largest value among the timed maxSpeed effects applied so far whose
\* window holds now; -1 when there is none.
RECURSIVE MaxValueInWindow(_, _)
MaxValueInWindow(i, best) ==
  IF i > Len(applied) THEN best
  ELSE MaxValueInWindow(i + 1,
         IF TimedSpeedEffectInWindow(i) /\ applied[i].value > best
         THEN applied[i].value ELSE best)

\* C6: the effective max speed is base maxSpeed times the maximum value among
\* the non-expired timed maxSpeed effects (1 if there are none); score, size
\* and permanent effects never change it.
C6_EffectiveMaxIsBaseTimesMax ==
  LET best == MaxValueInWindow(1, -1)
  IN getEffectiveMaxSpeed(car.activeEffects, now)
       = IF best = -1 THEN maxSpeed ELSE Quot(maxSpeed * best, MILLI)

\* C7: after each tick of the game loop in which the car's Y does not
\* increase, every entity the manager holds is active and has its Y within
\* 2000 ahead and 1000 behind the car's Y at the end of that tick.
C7_HeldEntitiesActiveInWindow ==
  (IsTick /\ car.worldPosition.y <= tickStartY)
    => \A i \in 1..Len(Entities) :
         /\ Entities[i].isActive
         /\ Entities[i].shape.y >= car.worldPosition.y - 2000 * CENTI
         /\ Entities[i].shape.y <= car.worldPosition.y + 1000 * CENTI

\* Entity i is a box that overlaps the lane of the car.
BoxOnPath(i) ==
  /\ Entities[i].kind = "box"
  /\ 2 * Abs(Entities[i].shape.x - car.worldPosition.x) < Entities[i].shape.width + car.width

ActivePowerUpAt(es, p) ==
  \E i \in 1..Len(es) :
    /\ es[i].kind = "powerUp" /\ es[i].isActive
    /\ es[i].shape.x = p.x /\ es[i].shape.y = p.y

\* C9: if a power-up's centre is at the car's exact position, a single tick
\* (car update, then collision resolution) deactivates it and makes the car's
\* effective max speed exceed the base max speed.
C9_PickupAtCarPosition ==
  [][(ActivePowerUpAt(Entities, car.worldPosition) /\ ~isGameOver
        /\ lastOp' \in {"start", "frame"})
       => /\ ~ActivePowerUpAt(entityManager'.entities, car.worldPosition)
          /\ getEffectiveMaxSpeed(car'.activeEffects, now') > maxSpeed]_vars

\* C10: for a spawn Y with |Y| > wallTransitionScore generateRandomEntity
\* produces a wall pair, a cyclist or a power-up and never a plain box; for
\* |Y| <= wallTransitionScore it never produces a wall.
C10_ObstacleKindByProgress ==
  lastOp = "generate"
    => \A i \in 1..Len(Entities) :
         IF Abs(entityManager.nextEntityY) > config.wallTransitionScore
         THEN /\ Entities[i].kind \in {"wall", "cyclist", "powerUp"}
              /\ (Entities[i].kind = "wall" => Len(Entities) = 2)
         ELSE Entities[i].kind # "wall"

\* A wall pair has been generated beyond the transition score.
C10_Witness ==
  /\ lastOp = "generate"
  /\ Abs(entityManager.nextEntityY) > config.wallTransitionScore
  /\ Len(Entities) = 2
  /\ Entities[1].kind = "wall" /\ Entities[2].kind = "wall"

\* C11: collision is symmetric: for every pair of shapes A and B, rectangles
\* of any rotation and circles, A.collidesWith(B) equals B.collidesWith(A).
\* (Neither call assigns to a field of either shape: the shapes of the pair
\* are the same values before and after both calls.)
C11_CollisionSymmetric == probe.tested => probe.ab = probe.ba

\* Two rectangles of different rotation were tested and collide.
C11_Witness ==
  /\ probe.tested
  /\ probe.a.type = "rect" /\ probe.b.type = "rect"
  /\ probe.a.rotation # probe.b.rotation
  /\ probe.a.width > 0 /\ probe.b.width > 0
  /\ probe.ab

\* The axis-aligned bounding box overlap test on the centre, width and height
\* of two rectangles; boxes that touch count as overlapping, as they do in
\* the separating axis test.
aabbOverlap(a, b) ==
  /\ 2 * Abs(a.x - b.x) <= a.width + b.width
  /\ 2 * Abs(a.y - b.y) <= a.height + b.height

\* C12: for every pair of rectangles with rotation 0, collidesWithRect returns
\* what the axis-aligned bounding box overlap test returns on the same
\* centres, widths and heights.
C12_SatAgreesWithAabb ==
  (probe.tested /\ probe.a.type = "rect" /\ probe.b.type = "rect"
     /\ probe.a.rotation = 0 /\ probe.b.rotation = 0)
  => probe.ab = aabbOverlap(probe.a, probe.b)

\* The same for rectangles of positive width and height.
SatAgreesWithAabbOnProperRectangles ==
  (probe.tested /\ probe.a.type = "rect" /\ probe.b.type = "rect"
     /\ probe.a.rotation = 0 /\ probe.b.rotation = 0
     /\ (probe.a.width > 0 \/ probe.b.width > 0))
  => probe.ab = aabbOverlap(probe.a, probe.b)

\* C13: an inactive entity never has its hit handler invoked by the collision
\* pass, and never has its draw hook invoked by render: every entity whose
\* onHit the last frame invoked was active at the call, and every entity the
\* last frame drew is active.
C13_InactiveNeitherHitNorDrawn ==
  /\ \A k \in 1..Len(frameLog.hits) : frameLog.hits[k].isActive
  /\ \A k \in 1..Len(frameLog.drawn) : frameLog.drawn[k].isActive

\* With the game over, a frame drew the road while the manager still held an
\* entity that a hit had deactivated, and did not draw that entity.
C13_Witness ==
  /\ lastOp = "frame"
  /\ frameLog.steps = << "road.draw" >>
  /\ \E i \in 1..Len(Entities) : ~Entities[i].isActive
  /\ Len(frameLog.drawn) < Len(Entities)

\* The steps of a frame of a game that is not over.
FrameSteps4 == << "car.update", "road.update", "checkCollision", "road.draw" >>

\* C14: in every frame in which the game is not over, the loop runs the car's
\* physics update, the entity spawn/update, the collision pass and the
\* drawing, in that order and once each: the collision pass is given the car
\* shape that this frame's car.update produced and the entities that this
\* frame's road.update produced, and the drawing shows the entities and the
\* car position that the collision pass left.
C14_FrameOrder ==
  [][((lastOp' = "frame" /\ ~isGameOver) \/ lastOp' = "start")
       => /\ frameLog'.steps = FrameSteps4
          /\ frameLog'.carShape
               = update(car, controls,
                        IF lastOp' = "start" THEN 0 ELSE Min(now' - lastTimestamp, 100),
                        now').shape
          /\ frameLog'.found = roadUpdate(road, entityManager, now').entityManager.entities
          /\ frameLog'.drawn = drawEntities(entityManager'.entities)
          /\ road'.lastCarY = car'.worldPosition.y]_vars

\* A frame of a running game moved the car, and its collision pass invoked a
\* hit handler.
C14_Witness ==
  /\ lastOp = "frame"
  /\ frameLog.steps = FrameSteps4
  /\ frameLog.carShape.y < 0
  /\ frameLog.hits # << >>

\* The number of effects of a type handed to applyEffect so far.
AppliedOfType(type) == Len(SelectSeq(applied, LAMBDA e : e.type = type))

\* The cyclists the car has hit.
HitCyclists == {i \in 1..Len(Entities) : Entities[i].kind = "cyclist" /\ Entities[i].isHit}

\* C15: a cyclist's hit handler is idempotent: however many ticks the car
\* stays in contact, each cyclist hit has applied one score effect (the score
\* callback received 100 once) and one size effect, and a cyclist that was
\* hit is still active.
C15_CyclistHitOnce ==
  /\ score = 100 * Cardinality(HitCyclists)
  /\ AppliedOfType("score") = Cardinality(HitCyclists)
  /\ AppliedOfType("size") = Cardinality(HitCyclists)
  /\ \A i \in HitCyclists : Entities[i].isActive

\* The collision pass of a frame invoked the hit handler of a cyclist that an
\* earlier frame had already hit.
C15_Witness ==
  /\ lastOp = "frame"
  /\ HitCyclists # {}
  /\ \E k \in 1..Len(frameLog.hits) :
       frameLog.hits[k].kind = "cyclist" /\ frameLog.hits[k].isHit

\* The active boxes and walls that the last collision pass found in contact
\* with the car: their positions in the entity list the pass was given.
ObstaclesInContact ==
  {i \in 1..Len(frameLog.found) :
     /\ frameLog.found[i].kind \in {"box", "wall"}
     /\ frameLog.found[i].isActive
     /\ collidesWith(frameLog.found[i].shape, frameLog.carShape)}

\* C16: whenever the collision pass finds an active box or wall in contact
\* with the car, the car is crashed after the pass and the obstacle is still
\* active.
C16_ObstacleCrashesAndStays ==
  \A i \in ObstaclesInContact :
    /\ car.crashed
    /\ isGameOver
    /\ Entities[i].kind = frameLog.found[i].kind
    /\ Entities[i].isActive

\* One collision pass found both a wall and a box in contact with the car.
C16_Witness ==
  /\ \E i \in ObstaclesInContact : frameLog.found[i].kind = "wall"
  /\ \E i \in ObstaclesInContact : frameLog.found[i].kind = "box"
  /\ car.crashed

\* The power-ups whose hit handler the collision pass of log invoked.
PowerUpHits(log) == {k \in 1..Len(log.hits) : log.hits[k].kind = "powerUp"}

\* C17: a power-up applies its speed effect at most once: on every tick, the
\* speed effects applied are one per power-up hit; a power-up that the pass
\* finds in contact is inactive after the pass; and every power-up in the
\* list that the entity manager's update hands to the pass is active, so a
\* power-up deactivated by an earlier pass has been removed and is not hit
\* again.
C17_PowerUpOnce ==
  [][lastOp' \in {"start", "frame"}
       => /\ AppliedOfType("maxSpeed")'
               = AppliedOfType("maxSpeed") + Cardinality(PowerUpHits(frameLog'))
          /\ \A i \in 1..Len(frameLog'.found) :
               frameLog'.found[i].kind = "powerUp"
                 => /\ frameLog'.found[i].isActive
                    /\ collidesWith(frameLog'.found[i].shape, frameLog'.carShape)
                         => ~entityManager'.entities[i].isActive]_vars

\* A power-up was picked up, the game went on, and the manager's next update
\* removed it: the speed effect was applied once and the entities left are
\* the ones spawned far ahead.
C17_Witness ==
  /\ lastOp = "frame"
  /\ ~isGameOver
  /\ updates >= 3
  /\ AppliedOfType("maxSpeed") = 1
  /\ \A i \in 1..Len(Entities) : Entities[i].shape.y <= config.initialObstacleY

\* C18: once the car is crashed, applyEffect does nothing: a call made after
\* crash() does not invoke the score callback, does not change the car's
\* height or shape and adds nothing to the active effects.
C18_NoEffectOnCrashedCar ==
  [][(car.crashed /\ lastOp' = "applyEffect")
       => /\ score' = score
          /\ car'.height = car.height
          /\ car'.shape = car.shape
          /\ car'.activeEffects = car.activeEffects]_vars

\* The same in the game.  The collision pass handles the entities in list
\* order, so every hit that follows the hit of a box or wall finds the car
\* crashed; such a hit applies no effect if it is the hit of another obstacle
\* or of a cyclist already hit.
HitsAfterCrash ==
  {k \in 1..Len(frameLog.hits) :
     \E j \in 1..(k - 1) : frameLog.hits[j].kind \in {"box", "wall"}}

NoEffectAfterCrashInPass ==
  \A k \in HitsAfterCrash :
    \/ frameLog.hits[k].kind \in {"box", "wall"}
    \/ frameLog.hits[k].kind = "cyclist" /\ frameLog.hits[k].isHit

\* C19: each size effect applied to the car increases the car's length by the
\* effect's value, relative to the length before the effect, and the
\* collision shape's height equals the new length as soon as applyEffect
\* returns.
C19_SizeEffectAddsToLength ==
  [][(lastOp' = "applyEffect" /\ applied'[Len(applied')].type = "size")
       => /\ car'.height = car.height + applied'[Len(applied')].value * CENTI
          /\ car'.shape.height = car'.height]_vars

\* The part that does not depend on the length before: the shape is rebuilt
\* with the car's height whenever a size effect is applied, and that height
\* is the base length plus the effect's value.
SizeEffectSetsLengthFromBase ==
  [][(lastOp' = "applyEffect" /\ applied'[Len(applied')].type = "size")
       => /\ car'.height = baseHeight + applied'[Len(applied')].value * CENTI
          /\ car'.shape.height = car'.height]_vars

\* In the game: the car's length after hitting cyclists is the base length
\* plus 20 for each cyclist hit.
LengthCountsCyclists == car.height = baseHeight + 20 * CENTI * Cardinality(HitCyclists)

\* C20: after the entity manager's update of every tick, the spawn cursor lies
\* beyond the lookahead distance (2000) of the car's Y as this tick's physics
\* step left it: nextEntityY <= carY - 2000.
C20_CursorBeyondLookahead ==
  (IsTick /\ frameLog.steps = FrameSteps4)
  => entityManager.nextEntityY <= frameLog.carShape.y - 2000 * CENTI

\* The cursor is beyond the lookahead distance of the Y that the update was
\* given, which the previous frame's draw stored: the car's Y when the tick
\* began.
CursorBeyondLookaheadOfStoredY ==
  (IsTick /\ frameLog.steps = FrameSteps4)
  => entityManager.nextEntityY <= tickStartY - 2000 * CENTI

\* C21: over the whole life of a MapEntityManager the spawn cursor never
\* increases and each spawn Y receives exactly one spawn event: the Ys of
\* successive generateRandomEntity calls, the constructor's three included,
\* differ by exactly obstacleSpacing.
C21_OneSpawnPerY ==
  \A k \in 2..Len(entityManager.spawnYs) :
    entityManager.spawnYs[k] = entityManager.spawnYs[k - 1] - config.obstacleSpacing

\* The part that holds: the cursor never increases, and the spawns of the
\* update loop, from the fourth spawn event on, are one obstacleSpacing apart.
CursorNeverIncreases ==
  [][entityManager'.seed >= entityManager.seed + 1
       => entityManager'.nextEntityY <= entityManager.nextEntityY]_vars

UpdateSpawnsOneSpacingApart ==
  \A k \in 5..Len(entityManager.spawnYs) :
    entityManager.spawnYs[k] = entityManager.spawnYs[k - 1] - config.obstacleSpacing

\* The X span that an unrotated rectangle's collision shape covers.
leftEdge(shape) == shape.corners[1].x
rightEdge(shape) == shape.corners[2].x

\* A wall pair has just been generated.
WallPairGenerated ==
  /\ lastOp = "generate"
  /\ Len(Entities) = 2
  /\ Entities[1].kind = "wall" /\ Entities[2].kind = "wall"

\* C22: the two collision shapes of a wall pair bracket a single gap: they
\* cover the road span [-roadWidth/2, roadWidth/2] except for one open
\* interval between them, 100 to 200 wide, and they do not overlap.
C22_WallsBracketOneGap ==
  WallPairGenerated
  => /\ leftEdge(Entities[1].shape) <= -(config.roadWidth \div 2)
     /\ rightEdge(Entities[2].shape) >= config.roadWidth \div 2
     /\ rightEdge(Entities[1].shape) <= leftEdge(Entities[2].shape)
     /\ leftEdge(Entities[2].shape) - rightEdge(Entities[1].shape) >= 100 * CENTI
     /\ leftEdge(Entities[2].shape) - rightEdge(Entities[1].shape) <= 200 * CENTI

\* What the constructor arguments describe when x is read as a section's left
\* edge: the sections start at the road's left edge and end at its right
\* edge, and the gap between them is 100 to 200 wide.
WallArgumentsBracketOneGap ==
  WallPairGenerated
  => /\ Entities[1].shape.x = -(config.roadWidth \div 2)
     /\ Entities[2].shape.x + Entities[2].shape.width = config.roadWidth \div 2
     /\ Entities[2].shape.x - (Entities[1].shape.x + Entities[1].shape.width) >= 100 * CENTI
     /\ Entities[2].shape.x - (Entities[1].shape.x + Entities[1].shape.width) <= 200 * CENTI

\* Steering angles within the clamp of updateSteering, both sides.
TurnAngles == {-maxSteeringAngle, -steeringSpeed, steeringSpeed, maxSteeringAngle}

\* C23: the high-speed steering reduction only weakens steering: at every
\* velocity the car reaches, the reduction factor lies in [0.5, 1] (the slip
\* ratio in [0, 1]), and for every steering angle the effective turn factor
\* has the sign of tan(steeringAngle) and no larger a magnitude.
C23_ReductionOnlyWeakens ==
  /\ reductionFactor(car.velocity) >= MILLI \div 2
  /\ reductionFactor(car.velocity) <= MILLI
  /\ \A angle \in TurnAngles :
       /\ effectiveTan(car.velocity, angle) * Sign(Tan(angle)) >= 0
       /\ Abs(effectiveTan(car.velocity, angle)) <= Abs(Tan(angle))

\* The same up to 0.6 * maxSpeed, where the slip ratio reaches 1.
ReductionOnlyWeakensInBand ==
  Abs(car.velocity) <= (stats.maxSpeed * 6) \div 10
  => /\ reductionFactor(car.velocity) >= MILLI \div 2
     /\ reductionFactor(car.velocity) <= MILLI
     /\ \A angle \in TurnAngles :
          /\ effectiveTan(car.velocity, angle) * Sign(Tan(angle)) >= 0
          /\ Abs(effectiveTan(car.velocity, angle)) <= Abs(Tan(angle))

\* Above 0.7 * maxSpeed the reduction factor is negative and the effective
\* turn factor opposes the steering.
TurnFactorNeverOpposesSteering ==
  \A angle \in TurnAngles : effectiveTan(car.velocity, angle) * Sign(Tan(angle)) >= 0

\* C24: the elapsed time applied to a state advance in one tick is clamped to
\* 32 ms whatever gap the host reports: the deltaTime that the frame gives to
\* car.update (the velocity update uses it as given) and the deltaTime that
\* the entities' update receives never exceed 32.
C24_DeltaTimeClamped ==
  frameLog.steps = FrameSteps4
  => /\ frameLog.carDeltaTime <= 32
     /\ frameLog.roadDeltaTime <= 32

\* The clamp that the frame does apply to the car's deltaTime.
CarDeltaTimeAtMost100 == frameLog.carDeltaTime <= 100

\* The state restart() leaves: the game is not over, score and distance are
\* 0, every control is released, and the car is a new Car that has not
\* crashed, at the origin with zero velocity and rotation.
Restarted ==
  /\ ~isGameOver
  /\ score = 0
  /\ distance = 0
  /\ controls = NoControls
  /\ ~car.crashed
  /\ car.worldPosition = [x |-> 0, y |-> 0]
  /\ car.velocity = 0
  /\ car.rotation = 0

\* C25: isGameOver becomes true in the frame in which the car becomes crashed
\* and stays true until a restart; while it is true a frame advances neither
\* the car nor the entity manager nor the score (and runs no collision
\* pass); only a key press made while the game is over restarts it, a key
\* press made otherwise changes nothing but the controls, and a restart
\* leaves a fresh game with a new Car.
C25_GameOverLifecycle ==
  [][/\ (lastOp' \in {"start", "frame"} => isGameOver' = car'.crashed)
     /\ (isGameOver /\ carId' = carId => isGameOver')
     /\ (isGameOver /\ lastOp' = "frame"
           => /\ car' = car
              /\ entityManager' = entityManager
              /\ score' = score
              /\ frameLog'.steps = << "road.draw" >>)
     /\ (carId' # carId => isGameOver /\ lastOp' = "keydown" /\ carId' = carId + 1 /\ Restarted')
     /\ (~isGameOver /\ lastOp' = "keydown"
           => /\ car' = car /\ carId' = carId /\ score' = score /\ distance' = distance
              /\ entityManager' = entityManager /\ ~isGameOver')]_vars

\* A game ended by a crash was restarted by Space, and a frame of the new game
\* has run.
C25_Witness ==
  /\ carId = 2
  /\ lastOp = "frame"
  /\ ~isGameOver
  /\ frameLog.steps = FrameSteps4

\* Where the cyclist's X would be after the update's move, before the bounds
\* are applied.
Moved(e, deltaTime) == e.currentX + Quot(50 * e.moveDirection * deltaTime, 16)

\* C26: for every cyclist and every update(deltaTime), deltaTime >= 0: the
\* cyclist's X stays within [minX, maxX] and its shape's X equals it; an
\* update that moves the cyclist onto or past a bound sets X to the bound
\* and reverses the direction; once hit, the cyclist never moves again.
C26_CyclistBouncesAtBounds ==
  [][lastOp' = "entityUpdate"
       => LET e == Entities[1]
              after == entityManager'.entities[1]
              moved == Moved(e, frameLog'.roadDeltaTime)
          IN /\ after.currentX >= e.minX /\ after.currentX <= e.maxX
             /\ after.shape.x = after.currentX
             /\ e.isHit => after = e
             /\ (~e.isHit /\ moved # e.currentX /\ (moved <= e.minX \/ moved >= e.maxX))
                  => /\ after.currentX = (IF moved <= e.minX THEN e.minX ELSE e.maxX)
                     /\ after.moveDirection = -e.moveDirection]_vars

\* The same with the direction reversed only by an update that moves the
\* cyclist past a bound; an update that lands it exactly on a bound keeps
\* the direction, and an update between the bounds moves it as computed.
CyclistBouncesPastBounds ==
  [][lastOp' = "entityUpdate"
       => LET e == Entities[1]
              after == entityManager'.entities[1]
              moved == Moved(e, frameLog'.roadDeltaTime)
          IN /\ after.currentX >= e.minX /\ after.currentX <= e.maxX
             /\ after.shape.x = after.currentX
             /\ e.isHit => after = e
             /\ (~e.isHit /\ (moved < e.minX \/ moved > e.maxX))
                  => /\ after.currentX = (IF moved < e.minX THEN e.minX ELSE e.maxX)
                     /\ after.moveDirection = -e.moveDirection
             /\ (~e.isHit /\ moved >= e.minX /\ moved <= e.maxX)
                  => /\ after.currentX = moved
                     /\ after.moveDirection = e.moveDirection]_vars

\* C27: after every Car.update and every applyEffect the car's collision
\* shape agrees with the car: its centre is worldPosition, its rotation the
\* car's rotation, its width and height the car's current width and height,
\* and its cached corners are the corners derived from those values.
C27_ShapeAgreesWithCar ==
  /\ car.shape.x = car.worldPosition.x
  /\ car.shape.y = car.worldPosition.y
  /\ car.shape.rotation = car.rotation
  /\ car.shape.width = car.width
  /\ car.shape.height = car.height
  /\ car.shape.corners = calculateCorners(car.worldPosition.x, car.worldPosition.y,
                                          car.width, car.height, car.rotation)

\* A car that has moved, turned and grown.
C27_Witness ==
  /\ car.worldPosition.y # 0
  /\ car.rotation # 0
  /\ car.height # baseHeight
  /\ C27_ShapeAgreesWithCar

\* C28: no division of the car's update has a zero divisor and no field of
\* the car's state becomes NaN, for every deltaTime >= 0, deltaTime = 0
\* included (the first frame after start, and the updatePosition(0) of a
\* size effect).  The one division by the step is rotationChange / dt, whose
\* result is angularVelocity.
C28_NoNaN == ~car.angularVelocity.nan

\* The same for every update with a positive deltaTime on a car that is not
\* crashed.
NoNaNAfterPositiveStep ==
  [][\A ctl \in Controls, deltaTime \in DeltaTimes \ {0} :
       (~car.crashed /\ Update(ctl, deltaTime)) => ~car'.angularVelocity.nan]_vars

\* C29: after every Car.update, whatever the inputs and whatever speed
\* effects were applied and have expired, the velocity lies within
\* [-0.5 * effectiveMaxSpeed, effectiveMaxSpeed], effectiveMaxSpeed being the
\* value in force at that tick; so once a boost has expired the velocity is
\* at most the base maxSpeed after the next update, 'up' held or not.
C29_VelocityWithinCaps ==
  lastOp = "update"
    => LET effectiveMaxSpeed == getEffectiveMaxSpeed(car.activeEffects, now)
       IN /\ car.velocity <= effectiveMaxSpeed
          /\ car.velocity >= -(effectiveMaxSpeed \div 2)

\* The same for the updates with 'up' held.
VelocityWithinCapsWhileUpHeld ==
  [][(~car.crashed /\ Update(UpOnly, frameStep))
       => LET effectiveMaxSpeed == getEffectiveMaxSpeed(car'.activeEffects, now)
          IN car'.velocity >= 0 /\ car'.velocity <= effectiveMaxSpeed]_vars

\* C30: from rest, on a car that is not crashed, with 'up' held on every
\* tick and every tick of the same deltaTime in (0, 32] ms, the velocity
\* eventually becomes positive and the car's Y eventually decreases: the
\* snap to zero never cancels the acceleration of a tick indefinitely.  Every
\* tick has the same controls and deltaTime, so this says that no tick from
\* rest leaves the car as it was; after such a tick every later one does the
\* same.
C30_TickFromRestMoves ==
  [][(car.velocity = 0 /\ NextHeld) => car' # car]_vars

\* With a deltaTime of 5 ms or less a tick from rest leaves the whole car as
\* it was, so every later tick does the same.
RestIsFixedPointUpToFiveMs ==
  [][(frameStep <= 5 /\ Update(controls, frameStep)) => car' = car]_vars

\* With a deltaTime of 6 ms or more the first tick makes the velocity
\* positive and moves the car up the road.
MovesFromSixMs ==
  (frameStep >= 6 /\ updates >= 1) => (car.velocity > 0 /\ car.worldPosition.y < 0)
====
